---- MODULE Spec2Model ----
(***************************************************************************)
(* Model of MotionDetectionCounter (src/main.py): the shape classifier,    *)
(* the crossing / de-duplication decision of process_frame, the bounded    *)
(* history deque and the run loop with its reset key.                      *)
(*                                                                         *)
(* A contour is represented by what the code reads of it: its bounding     *)
(* rectangle (x, y, w, h) and its contour area.  Ratios are kept exact:    *)
(* aspect_ratio_range is held in tenths (0.3 -> 3, 3.0 -> 30) and the      *)
(* solidity bound 0.3 is compared cross-multiplied.                        *)
(***************************************************************************)
EXTENDS Integers, Sequences, FiniteSets

VARIABLES
    counting_line_y,     \* self.counting_line_y
    min_area,            \* self.min_area
    max_area,            \* self.max_area
    distance_threshold,  \* self.distance_threshold
    aspect_ratio_range,  \* self.aspect_ratio_range, in tenths: <<lo, hi>>
    frame_width,         \* width of the frames the camera delivers
    object_count,        \* self.object_count
    tracked_objects,     \* self.tracked_objects, deque(maxlen=100)
    pc,                  \* position in run(): "read", "contours", "key", "done"
    remaining,           \* contours of the current frame not yet iterated
    cursor,              \* conveyor scene: index of the next new position
    last,                \* history variable: the last loop iteration / key
    frameStart,          \* history variable: object_count when the frame began
    frameSeen,           \* history variable: accepted in-band centers of this frame
    preReset,            \* history variable: history cleared by the last reset
    decisions            \* history variable: count decisions since the last reset

cfgvars == <<counting_line_y, min_area, max_area, distance_threshold,
             aspect_ratio_range, frame_width>>
vars == <<counting_line_y, min_area, max_area, distance_threshold,
          aspect_ratio_range, frame_width, object_count, tracked_objects,
          pc, remaining, cursor, last, frameStart, frameSeen, preReset,
          decisions>>

----------------------------------------------------------------------------
(* Program constants *)

maxlen == 100           \* deque(maxlen=100)
LineTolerance == 10     \* abs(cy - counting_line_y) <= 10
SolidityTenths == 3     \* solidity < 0.3 rejects
DefaultWidth == 640     \* cap.set(CAP_PROP_FRAME_WIDTH, 640)

(* Bounds of the model *)

MaxContours == 2        \* contours per frame
SweepExtra == 3         \* positions beyond the history capacity in the wide scene
BoxSide == 40           \* side of the blobs of the scenes
BoxArea == 1200         \* contour area of the blobs of the scenes

----------------------------------------------------------------------------
(* Pure functions of the class *)

Abs(n) == IF n < 0 THEN -n ELSE n

Dist2(a, b) == (a[1] - b[1]) * (a[1] - b[1]) + (a[2] - b[2]) * (a[2] - b[2])

\* np.sqrt(d2) < t for an integer d2 >= 0: the correctly rounded square root
\* of a pixel-range integer is below t exactly when d2 < t*t and t > 0.
SqrtLessMutLe(d2, t) == t >= 0 /\ d2 <= t * t
SqrtLess(d2, t) == t > 0 /\ d2 < t * t

\* deque.append on a deque with maxlen: a full deque drops its leftmost item.
DequeAppendMutNewest(s, e) ==
    IF Len(s) >= maxlen THEN Append(SubSeq(s, 1, Len(s) - 1), e) ELSE Append(s, e)
DequeAppendMutUnbounded(s, e) == Append(s, e)
DequeAppendMutHalf(s, e) ==
    IF 2 * Len(s) >= maxlen THEN Append(Tail(s), e) ELSE Append(s, e)
DequeAppend(s, e) ==
    IF Len(s) >= maxlen THEN Append(Tail(s), e) ELSE Append(s, e)

NoShape == [ok |-> FALSE, center |-> <<0, 0>>]

\* is_box_like_shape: area bounds, aspect ratio, solidity, then the center.
is_box_like_shape(c) ==
    LET lo == aspect_ratio_range[1]
        hi == aspect_ratio_range[2]
        rect_area == c.w * c.h
    IN  IF c.area < min_area \/ c.area > max_area THEN NoShape
        ELSE IF ~ (IF c.h > 0
                   THEN lo * c.h <= 10 * c.w /\ 10 * c.w <= hi * c.h
                   ELSE lo <= 0 /\ 0 <= hi) THEN NoShape
        ELSE IF rect_area > 0 /\ 10 * c.area < SolidityTenths * rect_area
             THEN NoShape
        ELSE [ok |-> TRUE, center |-> <<c.x + (c.w \div 2), c.y + (c.h \div 2)>>]

\* is_duplicate_object: scans the whole deque.
is_duplicate_objectMutNewest(center) ==
    /\ Len(tracked_objects) > 0
    /\ SqrtLess(Dist2(center, tracked_objects[Len(tracked_objects)]),
                distance_threshold)
is_duplicate_object(center) ==
    \E i \in DOMAIN tracked_objects :
        SqrtLess(Dist2(center, tracked_objects[i]), distance_threshold)

\* has_crossed_line
has_crossed_lineMutStrict(center) ==
    Abs(center[2] - counting_line_y) < LineTolerance
has_crossed_line(center) ==
    Abs(center[2] - counting_line_y) <= LineTolerance

\* The condition of process_frame's inner if (lines 116-119).
CountDecisionMutNoDup(s) == s.ok /\ has_crossed_line(s.center)
CountDecision(s) ==
    s.ok /\ has_crossed_line(s.center) /\ ~ is_duplicate_object(s.center)

\* self.object_count += 1
CountIncrementMutTwo(n) == n + 2
CountIncrement(n) == n + 1

----------------------------------------------------------------------------
(* Scenes: the contours a frame can contain *)

Region(x, y, w, h, a) == [x |-> x, y |-> y, w |-> w, h |-> h, area |-> a]

\* A square blob of side BoxSide and contour area BoxArea whose bounding-box
\* center is (cx, cy).
Box(cx, cy) ==
    Region(cx - BoxSide \div 2, cy - BoxSide \div 2, BoxSide, BoxSide, BoxArea)

\* Scene of the general specification: blobs around the counting line of the
\* default configuration, and regions each filter of the classifier rejects.
Regions ==
    { Box(100, 250), Box(102, 251), Box(103, 254),
      Box(100, 240), Box(100, 260), Box(100, 261), Box(100, 239),
      Box(100, 400),
      Region(80, 230, 41, 41, 1200),      \* odd sides: center (100, 250)
      Region(90, 240, 20, 20, 200),       \* area below min_area
      Region(0, 230, 200, 40, 4000),      \* aspect ratio 5.0
      Region(50, 200, 100, 100, 1000) }   \* solidity 0.1

\* Scene of the classifier specification: small contours at the frame's
\* origin, with the areas a contour of that bounding box can have, and the
\* empty contour, whose bounding rectangle is (0, 0, 0, 0) and whose area is 0.
EmptyContour == Region(0, 0, 0, 0, 0)
ShapeRegions ==
    {EmptyContour} \cup
    { Region(x, 0, w, h, a) :
        <<x, w, h, a>> \in { q \in {0, 10} \X {1, 3, 8} \X {1, 3, 8} \X {0, 2, 4, 49} :
                               q[4] <= (q[2] - 1) * (q[3] - 1) } }

\* Conveyor scene: blobs on the counting line, one pixel apart.  Position i
\* is the blob whose bounding box starts at column i; the frame holds
\* frame_width - BoxSide + 1 of them.
SweepBox(i) ==
    Region(i, counting_line_y - BoxSide \div 2, BoxSide, BoxSide, BoxArea)
LastPosition == frame_width - BoxSide
SweepProbes ==
    { SweepBox(0), SweepBox(1),
      Region(0, counting_line_y + 100, BoxSide, BoxSide, BoxArea),
      Region(0, counting_line_y - BoxSide \div 2, BoxSide, BoxSide, 200) }
NarrowWidth == maxlen + BoxSide - 1
WideWidth == NarrowWidth + SweepExtra

----------------------------------------------------------------------------
(* Initial states *)

NoLast == [op |-> "none", region |-> Region(0, 0, 0, 0, 0), ok |-> FALSE,
           center |-> <<0, 0>>, counted |-> FALSE, recount |-> FALSE,
           count0 |-> 0]

InitState ==
    /\ object_count = 0
    /\ tracked_objects = <<>>
    /\ pc = "read"
    /\ remaining = 0
    /\ cursor = 0
    /\ last = NoLast
    /\ frameStart = 0
    /\ frameSeen = {}
    /\ preReset = <<>>
    /\ decisions = 0

Init ==
    /\ counting_line_y \in {250, 251}
    /\ min_area = 1000
    /\ max_area = 50000
    /\ distance_threshold \in {5, 10}
    /\ aspect_ratio_range = <<3, 30>>
    /\ frame_width = DefaultWidth
    /\ InitState

InitShape ==
    /\ counting_line_y = 5
    /\ min_area \in {0, 2}
    /\ max_area \in {4, 50000}
    /\ distance_threshold = 5
    /\ aspect_ratio_range \in {<<3, 30>>, <<0, 30>>}
    /\ frame_width = DefaultWidth
    /\ InitState

InitSweep ==
    /\ counting_line_y = 250
    /\ min_area = 1000
    /\ max_area = 50000
    /\ distance_threshold \in {1, 2}
    /\ aspect_ratio_range = <<3, 30>>
    /\ frame_width \in {NarrowWidth, WideWidth}
    /\ InitState

----------------------------------------------------------------------------
(* run(): one frame is read, its contours are iterated, a key is polled *)

\* cap.read() succeeded; findContours returned n contours.
ReadFrame ==
    /\ pc = "read"
    /\ \E n \in 0..MaxContours : remaining' = n
    /\ pc' = "contours"
    /\ frameStart' = object_count
    /\ frameSeen' = {}
    /\ UNCHANGED <<cfgvars, object_count, tracked_objects, cursor, last,
                   preReset, decisions>>

\* cap.read() returned ret = False: the loop breaks.
ReadFail ==
    /\ pc = "read"
    /\ pc' = "done"
    /\ UNCHANGED <<cfgvars, object_count, tracked_objects, remaining, cursor,
                   last, frameStart, frameSeen, preReset, decisions>>

\* One iteration of "for contour in contours" on contour c.
ProcessContour(c) ==
    LET s == is_box_like_shape(c)
        counted == CountDecision(s)
    IN  /\ pc = "contours"
        /\ remaining > 0
        /\ remaining' = remaining - 1
        /\ IF counted
           THEN /\ object_count' = CountIncrement(object_count)
                /\ tracked_objects' = DequeAppend(tracked_objects, s.center)
                /\ decisions' = decisions + 1
                /\ preReset' = <<>>
           ELSE UNCHANGED <<object_count, tracked_objects, decisions, preReset>>
        /\ last' = [op |-> "contour", region |-> c, ok |-> s.ok,
                    center |-> s.center, counted |-> counted,
                    recount |-> counted /\ (\E i \in DOMAIN preReset :
                                                preReset[i] = s.center),
                    count0 |-> object_count]
        /\ frameSeen' = IF s.ok /\ has_crossed_line(s.center)
                        THEN frameSeen \cup {s.center} ELSE frameSeen
        /\ UNCHANGED <<cfgvars, pc, frameStart>>

Contour ==
    /\ \E c \in Regions : ProcessContour(c)
    /\ UNCHANGED cursor

\* process_frame returns; the frame is drawn and shown; waitKey is next.
EndFrame ==
    /\ pc = "contours"
    /\ remaining = 0
    /\ pc' = "key"
    /\ UNCHANGED <<cfgvars, object_count, tracked_objects, remaining, cursor,
                   last, frameStart, frameSeen, preReset, decisions>>

\* key == ord('r'): the reset handler.
ResetBodyMutKeepHistory ==
    /\ object_count' = 0
    /\ UNCHANGED tracked_objects
ResetBody ==
    /\ object_count' = 0
    /\ tracked_objects' = <<>>

KeyReset ==
    /\ pc = "key"
    /\ ResetBody
    /\ pc' = "read"
    /\ last' = [NoLast EXCEPT !.op = "reset", !.count0 = object_count]
    /\ preReset' = tracked_objects
    /\ decisions' = 0
    /\ cursor' = 0
    /\ UNCHANGED <<cfgvars, remaining, frameStart, frameSeen>>

\* Any other key, or none: the loop continues.
KeyOther ==
    /\ pc = "key"
    /\ pc' = "read"
    /\ UNCHANGED <<cfgvars, object_count, tracked_objects, remaining, cursor,
                   last, frameStart, frameSeen, preReset, decisions>>

\* key == ord('q'): the loop breaks.
KeyQuit ==
    /\ pc = "key"
    /\ pc' = "done"
    /\ UNCHANGED <<cfgvars, object_count, tracked_objects, remaining, cursor,
                   last, frameStart, frameSeen, preReset, decisions>>

\* KeyboardInterrupt while the loop waits on the camera or the keyboard.
Interrupt ==
    /\ pc \in {"read", "key"}
    /\ pc' = "done"
    /\ UNCHANGED <<cfgvars, object_count, tracked_objects, remaining, cursor,
                   last, frameStart, frameSeen, preReset, decisions>>

ContourShape ==
    /\ \E c \in ShapeRegions : ProcessContour(c)
    /\ UNCHANGED cursor

\* The conveyor brings the next new position into view.
ContourFresh ==
    /\ cursor <= LastPosition
    /\ ProcessContour(SweepBox(cursor))
    /\ cursor' = cursor + 1

\* A blob at one of the first positions, off the line, or too small.
ContourProbe ==
    /\ \E c \in SweepProbes : ProcessContour(c)
    /\ UNCHANGED cursor

Next ==
    \/ ReadFrame
    \/ ReadFail
    \/ Contour
    \/ EndFrame
    \/ KeyReset
    \/ KeyOther
    \/ KeyQuit
    \/ Interrupt

Spec == Init /\ [][Next]_vars

NextShape ==
    \/ ReadFrame
    \/ ReadFail
    \/ ContourShape
    \/ EndFrame
    \/ KeyReset
    \/ KeyOther
    \/ KeyQuit
    \/ Interrupt

SpecShape == InitShape /\ [][NextShape]_vars

NextSweep ==
    \/ ReadFrame
    \/ ReadFail
    \/ ContourFresh
    \/ ContourProbe
    \/ EndFrame
    \/ KeyReset
    \/ KeyOther
    \/ KeyQuit
    \/ Interrupt

SpecSweep == InitSweep /\ [][NextSweep]_vars

----------------------------------------------------------------------------
(* Vocabulary of the properties *)

Range(s) == { s[i] : i \in DOMAIN s }

Min(a, b) == IF a < b THEN a ELSE b

\* The tolerance band of the counting line, both boundaries included.
InBand(c) == counting_line_y - 10 <= c[2] /\ c[2] <= counting_line_y + 10

\* Euclidean distance strictly below distance_threshold (a positive integer).
Closer(a, b) == Dist2(a, b) < distance_threshold * distance_threshold

\* A step that is one iteration of the contour loop.
ContourStep == pc = "contours" /\ remaining' = remaining - 1

\* The positions the conveyor scene can show in the band, and the largest
\* number of them that are pairwise at least distance_threshold apart: they
\* lie on one row, one pixel apart, so every distance_threshold-th fits.
SweepPositions ==
    { <<i + BoxSide \div 2, counting_line_y>> : i \in 0..LastPosition }
MaxSeparated == (Cardinality(SweepPositions) - 1) \div distance_threshold + 1

----------------------------------------------------------------------------
(* C1: object_count never decreases except at a reset, and between two     *)
(* resets it equals the number of candidates for which the count decision  *)
(* was taken: each loop iteration leaves it at its previous value plus one *)
(* if the decision was taken and plus zero otherwise, and no other step    *)
(* but the reset changes it.                                               *)
C1_CountEqualsDecisions ==
    /\ object_count = decisions
    /\ last.op = "contour" =>
           object_count = last.count0 + (IF last.counted THEN 1 ELSE 0)
    /\ last.op \in {"reset", "none"} => object_count = 0

\* Three counted, then an accepted candidate that was not counted, the key
\* polled without a reset: the count is still three.
C1_Witness ==
    /\ pc = "key"
    /\ last.op = "contour" /\ last.ok /\ ~ last.counted
    /\ object_count = 3 /\ decisions = 3

(* C2: the history never holds more than 100 entries, and its length is    *)
(* min(object_count, 100) in every state.                                  *)
C2_HistoryLength ==
    /\ Len(tracked_objects) <= 100
    /\ Len(tracked_objects) = Min(object_count, 100)

\* More than 100 counted since the reset: the history is full, not longer.
C2_Witness == object_count > 100 /\ Len(tracked_objects) = 100

(* C3: an accepted candidate is counted (count + 1, centroid appended) iff *)
(* its y lies within 10 of the counting line, boundaries included, and it  *)
(* matches no history entry; every other iteration, a rejected region      *)
(* included, leaves the count and the history unchanged.                   *)
C3_CountedIff ==
    [][ContourStep =>
          LET c == last'.center
          IN  IF /\ last'.ok
                 /\ InBand(c)
                 /\ \A i \in DOMAIN tracked_objects : ~ Closer(tracked_objects[i], c)
              THEN /\ last'.counted
                   /\ object_count' = object_count + 1
                   /\ tracked_objects' = Append(tracked_objects, c)
              ELSE /\ ~ last'.counted
                   /\ UNCHANGED <<object_count, tracked_objects>>]_vars

\* A candidate at y = counting_line_y + 10 is counted into a history that
\* holds one counted at y = counting_line_y - 10.
C3_Witness ==
    /\ last.op = "contour" /\ last.counted
    /\ last.center[2] = counting_line_y + 10
    /\ \E i \in DOMAIN tracked_objects :
           tracked_objects[i][2] = counting_line_y - 10

(* C4: a candidate is a duplicate iff some entry anywhere in the history   *)
(* is strictly closer than distance_threshold; at distance exactly         *)
(* distance_threshold from its nearest entry it is no duplicate and, in    *)
(* the band, is counted.                                                   *)
C4_DuplicateIff ==
    [][(ContourStep /\ last'.ok /\ InBand(last'.center)) =>
          /\ last'.counted <=>
                 \A e \in Range(tracked_objects) :
                     Dist2(e, last'.center) >=
                         distance_threshold * distance_threshold
          /\ (\E e \in Range(tracked_objects) : Closer(e, last'.center)) =>
                 UNCHANGED <<object_count, tracked_objects>>]_vars

\* A candidate is suppressed by an entry that is not the newest one, in a
\* history that holds two entries exactly distance_threshold apart.
C4_Witness ==
    /\ last.op = "contour" /\ last.ok /\ InBand(last.center) /\ ~ last.counted
    /\ Len(tracked_objects) >= 2
    /\ ~ Closer(tracked_objects[Len(tracked_objects)], last.center)
    /\ \E i \in DOMAIN tracked_objects : Closer(tracked_objects[i], last.center)
    /\ \E i, j \in DOMAIN tracked_objects :
           Dist2(tracked_objects[i], tracked_objects[j]) =
               distance_threshold * distance_threshold

C6_AcceptedWithinBounds ==
    (last.op = "contour" /\ last.ok) =>
        LET r == last.region
        IN  /\ min_area <= r.area /\ r.area <= max_area
            /\ r.h > 0
            /\ aspect_ratio_range[1] * r.h <= 10 * r.w
            /\ 10 * r.w <= aspect_ratio_range[2] * r.h
            /\ r.w * r.h > 0
            /\ 10 * r.area >= 3 * r.w * r.h

(* C7: a region whose bounding box has height 0, or area 0, is rejected by *)
(* the classifier whatever the configuration, and changes neither the      *)
(* count nor the history.                                                  *)
C7_DegenerateRejected ==
    (last.op = "contour" /\ (last.region.h = 0 \/ last.region.w * last.region.h = 0)) =>
        /\ ~ last.ok
        /\ ~ last.counted
        /\ object_count = last.count0

(* C8: the history evicts by capacity, oldest first: a counted centroid    *)
(* arriving at 100 entries removes exactly the oldest and keeps the other  *)
(* 99 in order; nothing else but a reset removes an entry; a position in   *)
(* the history is suppressed; and the position of the evicted entry is     *)
(* matched by no entry the moment it is evicted, so it is countable again. *)
C8_EvictOldest ==
    [][/\ (ContourStep /\ last'.counted) =>
             /\ Len(tracked_objects) < 100 =>
                    tracked_objects' = Append(tracked_objects, last'.center)
             /\ Len(tracked_objects) = 100 =>
                    /\ Len(tracked_objects') = 100
                    /\ \A i \in 1..99 : tracked_objects'[i] = tracked_objects[i + 1]
                    /\ tracked_objects'[100] = last'.center
                    /\ \A i \in 1..100 :
                           ~ Closer(tracked_objects'[i], tracked_objects[1])
       /\ ~ (ContourStep /\ last'.counted) =>
             \/ tracked_objects' = tracked_objects
             \/ last'.op = "reset" /\ tracked_objects' = <<>>
       /\ (ContourStep /\ last'.ok /\ last'.center \in Range(tracked_objects)) =>
             ~ last'.counted]_vars

\* Position 0 is counted again with no reset since it was first counted:
\* more than 100 others were counted after it.
C8_Witness ==
    /\ last.op = "contour" /\ last.counted
    /\ last.center = <<BoxSide \div 2, counting_line_y>>
    /\ cursor > 100
    /\ object_count >= 102
    /\ Len(tracked_objects) = 100

(* C9, as stated: every history entry lies in the band, two distinct       *)
(* entries are at least distance_threshold apart, and of two accepted      *)
(* candidates of one frame that lie in the band closer than                *)
(* distance_threshold to each other only the first is counted: the later   *)
(* one never is.                                                           *)
C9_OnlyFirstCounted ==
    /\ \A i \in DOMAIN tracked_objects : InBand(tracked_objects[i])
    /\ \A i, j \in DOMAIN tracked_objects :
           i # j => ~ Closer(tracked_objects[i], tracked_objects[j])
    /\ (/\ last.op = "contour" /\ last.ok /\ InBand(last.center)
        /\ \E a \in frameSeen \ {last.center} : Closer(a, last.center)) =>
           ~ last.counted

(* C9, amended: every history entry lies in the band, two distinct entries *)
(* are at least distance_threshold apart, and of two accepted candidates   *)
(* of one frame that lie in the band closer than distance_threshold to     *)
(* each other at most one is counted: the later one is not counted when    *)
(* the earlier one was.                                                    *)
C9_Separated ==
    /\ \A i \in DOMAIN tracked_objects : InBand(tracked_objects[i])
    /\ \A i, j \in DOMAIN tracked_objects :
           i # j => ~ Closer(tracked_objects[i], tracked_objects[j])
    /\ LET n == Len(tracked_objects)
           inFrame == { tracked_objects[i] :
                          i \in { k \in 1..n : k > n - (object_count - frameStart) } }
       IN  /\ \A a \in inFrame : a \in frameSeen
           /\ (/\ last.op = "contour" /\ last.ok /\ InBand(last.center)
               /\ \E a \in inFrame \ {last.center} : Closer(a, last.center)) =>
                  ~ last.counted

\* The first candidate of a frame is counted and the second, in the band
\* and closer than distance_threshold to it, is not.
C9_Witness ==
    /\ last.op = "contour" /\ last.ok /\ InBand(last.center) /\ ~ last.counted
    /\ object_count = frameStart + 1
    /\ Cardinality(frameSeen) = 2
    /\ tracked_objects[Len(tracked_objects)] \in frameSeen
    /\ Closer(tracked_objects[Len(tracked_objects)], last.center)

====
